---- MODULE Spec2Model ----
(***************************************************************************)
(* Model of tor2web/utils/gettor.py: the GetTor mirror task getTorTask,    *)
(* the version selection getLatestTBBVersion and the link extraction of    *)
(* getTBBFilenames, over an explicit filesystem (the version marker file   *)
(* lists/latest_torbrowser.txt, the staging directory torbrowser/temp and  *)
(* the live directory torbrowser/latest).                                  *)
(*                                                                         *)
(* getTorTask is an inlineCallbacks generator: it runs synchronously       *)
(* between two yields.  Each filesystem call of it is one step here, since *)
(* the serving path, other processes and a process kill see the disk       *)
(* between any two calls.                                                  *)
(***************************************************************************)
EXTENDS Integers, Sequences, FiniteSets, TLC

\* ------------------------------------------------------------------------
\* Bounds of the model

\* number of invocations of getTorTask in one behaviour
MaxCycle == 2
\* longest locale list given to the pattern on its own
MaxLocales == 2
\* longest array of candidates given to getLatestTBBVersion on its own
MaxFeed == 3

\* ------------------------------------------------------------------------
\* Version strings.  A version string is its dotted numeric components and
\* whether it carries a '-' suffix ("5.5.4-alpha").  "" has no component.

EmptyStr == [n |-> <<>>, pre |-> FALSE]
V553 == [n |-> <<5, 5, 3>>, pre |-> FALSE]
V510 == [n |-> <<5, 10>>, pre |-> FALSE]
V55 == [n |-> <<5, 5>>, pre |-> FALSE]
V60a == [n |-> <<6, 0>>, pre |-> TRUE]

\* the version strings the upstream may recommend
Releases == {V553, V510, V55, V60a}

RECURSIVE SeqsUpTo(_, _)
SeqsUpTo(S, k) ==
    IF k = 0 THEN {<<>>}
    ELSE LET prev == SeqsUpTo(S, k - 1)
         IN  prev \cup {Append(s, x) : s \in prev, x \in S}

\* every array of candidates up to MaxFeed entries
AllFeeds == SeqsUpTo(Releases, MaxFeed)

\* the JSON arrays getTBBVersions answers with in the cycles: no candidate,
\* pre-releases only, the installed release, a new release, two stable ones
Feeds == {<<>>, <<V60a>>, <<V553, V60a>>, <<V510>>, <<V553, V510>>}

\* '-' in v
HasDash(v) == v.pre

\* LooseVersion(a) < LooseVersion(b): the component lists compared as
\* Python compares lists (first difference decides, a proper prefix is less)
RECURSIVE ListLess(_, _)
ListLess(a, b) ==
    IF b = <<>> THEN FALSE
    ELSE IF a = <<>> THEN TRUE
    ELSE IF Head(a) # Head(b) THEN Head(a) < Head(b)
    ELSE ListLess(Tail(a), Tail(b))

LooseVersionLess(a, b) == ListLess(a.n, b.n)

\* the loop of lines 231-233 over version_numbers, from stable_version
RECURSIVE ScanStable(_, _)
ScanStable(version_numbers, stable_version) ==
    IF version_numbers = <<>> THEN stable_version
    ELSE LET v == Head(version_numbers)
         IN  ScanStable(Tail(version_numbers),
                        IF LooseVersionLess(v, stable_version)
                        THEN v ELSE stable_version)

\* version_numbers of lines 225-228
StableOf(versions) == SelectSeq(versions, LAMBDA v : ~HasDash(v))

\* getLatestTBBVersion without the filter of lines 226-228: every candidate
\* is scanned, the ones with '-' too
getLatestTBBVersion_NoFilter(versions) ==
    IF versions = <<>>
    THEN [ok |-> FALSE, v |-> EmptyStr]
    ELSE [ok |-> TRUE, v |-> ScanStable(versions, versions[1])]

\* getLatestTBBVersion: ok = FALSE is the IndexError of version_numbers[0]
getLatestTBBVersion(versions) ==
    LET version_numbers == StableOf(versions)
    IN  IF version_numbers = <<>>
        THEN [ok |-> FALSE, v |-> EmptyStr]
        ELSE [ok |-> TRUE,
              v |-> ScanStable(version_numbers, version_numbers[1])]

\* ------------------------------------------------------------------------
\* The mirror listing and the filename pattern.
\* A link of the listing is the text <stem><version>..<lc>.<ext>; stem "win"
\* is torbrowser-install-<ver>_ and stem "osx" is TorBrowser-<ver>-osx32_ .

\* lists/gettor_locales.txt
Locales == <<"en-US">>

Link(stem, ver, lc, ext) == [stem |-> stem, ver |-> ver, lc |-> lc, ext |-> ext]

\* the listing page of dist.torproject.org/torbrowser/<ver>/
Mirror(ver) ==
    {Link("win", ver, lc, ext) : lc \in {"en-US", "fr"}, ext \in {"exe", "exe.asc"}}
    \cup {Link("osx", ver, lc, ext) : lc \in {"en-US", "fr"}, ext \in {"dmg", "dmg.asc"}}
    \cup {Link("sha256sums", ver, "", "txt")}

\* the pages getPage(mirror) may answer with: the listing, or a page
\* without links
Pages(ver) == {Mirror(ver), {}}

Range(s) == {s[i] : i \in 1..Len(s)}

\* the locale codes a locale list is made of, and every list up to
\* MaxLocales codes
LocaleCodes == {"en-US", "es-ES", "fr"}
LocaleLists == SeqsUpTo(LocaleCodes, MaxLocales)

\* the links a listing is made of: installers and signatures of two
\* versions, and other files ending the same way or not
AllLinks ==
    {Link(stem, ver, lc, ext) :
        stem \in {"win", "osx", "sha256sums"}, ver \in {V510, V55},
        lc \in LocaleCodes, ext \in {"exe", "exe.asc", "dmg", "dmg.asc", "txt"}}

\* the pages the pattern is tried on: every link at once, the listing of
\* a release, no link, one link
ListingPages == {AllLinks, Mirror(V510), Mirror(V55), {}} \cup {{l} : l \in AllLinks}

\* The alternation built at lines 272-283 lists, per lang, (lang.exe) before
\* (lang.exe.asc) and (lang.dmg) before (lang.dmg.asc); group 1 of
\* url_regexp ends with the first alternative that matches, so a link ending
\* in .exe.asc is captured up to .exe .  With no lang the alternation is
\* empty and group 1 is the whole link.
Captured(link, langs) ==
    IF langs = <<>> THEN link
    ELSE IF link.ext \in {"exe", "exe.asc"} THEN [link EXCEPT !.ext = "exe"]
    ELSE [link EXCEPT !.ext = "dmg"]

LinkMatches(link, langs) ==
    \/ langs = <<>>
    \/ /\ link.lc \in Range(langs)
       /\ link.ext \in {"exe", "exe.asc", "dmg", "dmg.asc"}

\* extractLinks: set(x[0] for x in re.findall(urls_regexp, page))
extractLinks(page, langs) ==
    {Captured(l, langs) : l \in {k \in page : LinkMatches(k, langs)}}

\* ------------------------------------------------------------------------
\* Language tags and getBestLangMatch.  A tag is its primary subtag p and
\* what follows the first '-' (r, "" when the tag has no '-'), in the case
\* it is written in.

MaxHeader == 2
MaxSupported == 2

Tag(p, r) == [p |-> p, r |-> r]

\* the tags of the headers and of the supported lists
Tags == {Tag("es", ""), Tag("es", "ES"), Tag("es", "PT"),
         Tag("EN", "us"), Tag("en", "US"), Tag("en", "")}

\* str.lower() on a subtag
LowerSub(x) ==
    CASE x = "ES" -> "es"
      [] x = "EN" -> "en"
      [] x = "PT" -> "pt"
      [] x = "US" -> "us"
      [] OTHER -> x

\* lc.lower()
Lower(lc) == Tag(LowerSub(lc.p), LowerSub(lc.r))

\* language_only (lines 92-96): lc.split('-')[0] when lc has a '-'
language_only(lc) == IF lc.r # "" THEN Tag(lc.p, "") ELSE lc

\* an item of the accept-language header: a tag, with ";q=..." or not
HeaderItems == {[tag |-> g, q |-> b] : g \in Tags, b \in BOOLEAN}
Headers == SeqsUpTo(HeaderItems, MaxHeader)
SupportedLists == SeqsUpTo(Tags, MaxSupported)

\* parse_accept_language (lines 89-90): the part before ';' of every item
\* between two ','; the empty header gives the one empty tag
parse_accept_language(accept_language) ==
    IF accept_language = <<>> THEN <<Tag("", "")>>
    ELSE [i \in 1..Len(accept_language) |-> accept_language[i].tag]

\* the place of the first element of keys, in list order, that lc equals
\* without regard to case; 0 when a loop over keys ends without a return
FirstEqual(lc, keys) ==
    LET hits == {i \in 1..Len(keys) : Lower(lc) = Lower(keys[i])}
    IN  IF hits = {} THEN 0 ELSE CHOOSE i \in hits : \A j \in hits : i <= j

\* the value a loop of the body returns: supported_lcs[i], if it returns
Returned(supported_lcs, i) ==
    IF i = 0 THEN [found |-> FALSE, l |-> Tag("", "")]
    ELSE [found |-> TRUE, l |-> supported_lcs[i]]

\* the loop body without its third loop (lines 113-116)
MatchOne_NoWide(lc, supported_lcs) ==
    LET exact == FirstEqual(lc, supported_lcs)
        short == FirstEqual(language_only(lc), supported_lcs)
    IN  Returned(supported_lcs, IF exact # 0 THEN exact ELSE short)

\* the body of the loop of lines 98-116 for one lc
MatchOne(lc, supported_lcs) ==
    LET exact == FirstEqual(lc, supported_lcs)
        short == FirstEqual(language_only(lc), supported_lcs)
        wide == FirstEqual(language_only(lc),
                           [i \in 1..Len(supported_lcs) |->
                               language_only(supported_lcs[i])])
    IN  Returned(supported_lcs,
                 IF exact # 0 THEN exact ELSE IF short # 0 THEN short ELSE wide)

\* the loop of lines 98-118 over the parsed tags
RECURSIVE MatchAll(_, _)
MatchAll(lcs, supported_lcs) ==
    IF lcs = <<>> THEN Tag("en", "US")
    ELSE LET m == MatchOne(Head(lcs), supported_lcs)
         IN  IF m.found THEN m.l ELSE MatchAll(Tail(lcs), supported_lcs)

\* getBestLangMatch (lines 82-118)
getBestLangMatch(accept_language, supported_lcs) ==
    MatchAll(parse_accept_language(accept_language), supported_lcs)

NoRequest ==
    [accept_language |-> <<>>, supported_lcs |-> <<>>, lang |-> Tag("", ""),
     done |-> FALSE]

\* ------------------------------------------------------------------------
\* The filesystem and the invocations of getTorTask

\* a directory: its files and, for torbrowser/latest, the sub-directory
\* latest/temp that shutil.move makes when latest still exists
NoDir == [exists |-> FALSE, files |-> {}, hasSub |-> FALSE, sub |-> {}]
EmptyDir == [exists |-> TRUE, files |-> {}, hasSub |-> FALSE, sub |-> {}]

\* a file of a directory: its name, the invocation that opened it and
\* whether downloadPage has written all of it
FileOf(name, c, done) == [name |-> name, cyc |-> c, done |-> done]

\* the release the deployment starts with: published before the first cycle
InitialRelease ==
    [exists |-> TRUE,
     files |-> {FileOf(f, 0, TRUE) : f \in extractLinks(Mirror(V553), Locales)},
     hasSub |-> FALSE, sub |-> {}]

\* the slots an invocation of getTorTask can run in.  The timer runs the
\* task in slot 1, one invocation after the other; slot 2 is for an
\* invocation that overlaps it, which the timer never starts.
Slots == {1, 2}
Scheduled == {1}

Terminal == {"UpToDate", "Done", "Failed", "Abandoned"}
InFlight(p) == p \notin Terminal \cup {"Idle"}

VARIABLES
    latest_tb_file,   \* lists/latest_torbrowser.txt: [exists, text, nl]
    temp_path,        \* torbrowser/temp
    latest_path,      \* torbrowser/latest
    task,             \* per slot: the locals of the running getTorTask
    hist,             \* per slot: what the invocation started from, its events
    ncycles,          \* invocations started so far
    request           \* a GetTor request: its accept-language header, the
                      \* supported locales and the locale chosen for it

vars == <<latest_tb_file, temp_path, latest_path, task, hist, ncycles, request>>

FreshTask ==
    [pc |-> "Idle", id |-> 0, response |-> <<>>,
     latest_version |-> EmptyStr, current_version |-> EmptyStr,
     langs |-> <<>>, page |-> {}, files |-> {}, todo |-> {},
     f |-> Link("", EmptyStr, "", ""),
     err |-> "none"]

FreshHist ==
    [live0 |-> NoDir, marker0 |-> [exists |-> FALSE, text |-> EmptyStr, nl |-> FALSE],
     temp0 |-> NoDir, prevEnd |-> "Idle", prevResponse |-> <<>>,
     prevMarkerFail |-> FALSE, log |-> <<>>]

MarkerFile(text, nl) == [exists |-> TRUE, text |-> text, nl |-> nl]
NoFile == [exists |-> FALSE, text |-> EmptyStr, nl |-> FALSE]

Init ==
    /\ latest_tb_file \in {MarkerFile(V553, FALSE), MarkerFile(V553, TRUE), NoFile}
    /\ temp_path = NoDir
    /\ latest_path = InitialRelease
    /\ task = [t \in Slots |-> FreshTask]
    /\ hist = [t \in Slots |-> FreshHist]
    /\ ncycles = 0
    /\ request = NoRequest

\* ------------------------------------------------------------------------
\* Helpers of the steps

Goto(t, p) == task' = [task EXCEPT ![t].pc = p]

Logged(t, e) == hist' = [hist EXCEPT ![t].log = Append(@, e)]

\* an exception reaches `except Exception: pass` (lines 306-307)
Raise(t, e) == task' = [task EXCEPT ![t].pc = "Failed", ![t].err = e]

\* shutil.rmtree(path, True): every entry it cannot remove stays, errors
\* are ignored, and the directory itself goes only when it is empty
RmtreeOutcomes(d) ==
    IF ~d.exists THEN {NoDir}
    ELSE {NoDir}
         \cup {[exists |-> TRUE, files |-> fs, hasSub |-> hs,
                sub |-> IF hs THEN d.sub ELSE {}] :
                 fs \in SUBSET d.files, hs \in {FALSE, d.hasSub}}

\* FilePath(temp_path).child(f).open('w'): creates or truncates the file
OpenForWrite(d, name, c) ==
    [d EXCEPT !.files = {x \in @ : x.name # name} \cup {FileOf(name, c, FALSE)}]

\* downloadPage has written the whole body to the file it was given
Written(d, name, c) ==
    LET fin(S) == {IF x = FileOf(name, c, FALSE) THEN FileOf(name, c, TRUE) ELSE x : x \in S}
    IN  [d EXCEPT !.files = fin(@), !.sub = fin(@)]

\* version_file.read().replace('\n', '')
ReadMarker(m) == m.text

\* ------------------------------------------------------------------------
\* The steps of getTorTask, for the invocation in slot t

\* the timer calls getTorTask: lines 246-259 up to the first yield
Start(t) ==
    /\ ~InFlight(task[t].pc)
    /\ ncycles < MaxCycle
    /\ ncycles' = ncycles + 1
    /\ task' = [task EXCEPT ![t] = [FreshTask EXCEPT !.pc = "getTBBVersions",
                                                       !.id = ncycles + 1]]
    /\ hist' = [hist EXCEPT ![t] =
                   [live0 |-> latest_path, marker0 |-> latest_tb_file,
                    temp0 |-> temp_path, prevEnd |-> task[t].pc,
                    prevResponse |-> task[t].response,
                    prevMarkerFail |-> /\ task[t].pc = "Failed"
                                       /\ task[t].err \in {"marker_open", "marker_write"},
                    log |-> <<>>]]
    /\ UNCHANGED <<request, latest_tb_file, temp_path, latest_path>>

\* line 258: the deferred of getTBBVersions fires, with the JSON array of
\* the upstream or with a failure
VersionsReply(t) ==
    /\ task[t].pc = "getTBBVersions"
    /\ \/ /\ Raise(t, "fetch")
          /\ UNCHANGED hist
       \/ \E feed \in Feeds :
              /\ task' = [task EXCEPT ![t].pc = "CheckingVersion", ![t].response = feed]
              /\ Logged(t, "versions_received")
    /\ UNCHANGED <<request, latest_tb_file, temp_path, latest_path, ncycles>>

\* the comparison of line 268 guarded by `current_version and`: an empty
\* marker counts as up to date
CheckVersion_EmptyIsCurrent(t) ==
    /\ task[t].pc = "CheckingVersion"
    /\ LET r == getLatestTBBVersion(task[t].response)
       IN  IF ~r.ok
           THEN Raise(t, "select") /\ UNCHANGED hist
           ELSE IF ~latest_tb_file.exists
           THEN /\ task' = [task EXCEPT ![t].pc = "Failed", ![t].err = "marker_read",
                                        ![t].latest_version = r.v]
                /\ UNCHANGED hist
           ELSE /\ task' = [task EXCEPT
                       ![t].latest_version = r.v,
                       ![t].current_version = ReadMarker(latest_tb_file),
                       ![t].pc = IF /\ ReadMarker(latest_tb_file) # EmptyStr
                                    /\ ReadMarker(latest_tb_file) # r.v
                                 THEN "Matching" ELSE "UpToDate"]
                /\ Logged(t, "version_checked")
    /\ UNCHANGED <<request, latest_tb_file, temp_path, latest_path, ncycles>>

\* the version check taking a marker file that is not there for an empty one
CheckVersion_MissingMarkerIsEmpty(t) ==
    /\ task[t].pc = "CheckingVersion"
    /\ LET r == getLatestTBBVersion(task[t].response)
           cur == IF latest_tb_file.exists THEN ReadMarker(latest_tb_file) ELSE EmptyStr
       IN  IF ~r.ok
           THEN Raise(t, "select") /\ UNCHANGED hist
           ELSE /\ task' = [task EXCEPT
                       ![t].latest_version = r.v,
                       ![t].current_version = cur,
                       ![t].pc = IF cur # r.v THEN "Matching" ELSE "UpToDate"]
                /\ Logged(t, "version_checked")
    /\ UNCHANGED <<request, latest_tb_file, temp_path, latest_path, ncycles>>

\* lines 261-268: select the version, read the marker, compare
CheckVersion(t) ==
    /\ task[t].pc = "CheckingVersion"
    /\ LET r == getLatestTBBVersion(task[t].response)
       IN  IF ~r.ok
           THEN Raise(t, "select") /\ UNCHANGED hist
           ELSE IF ~latest_tb_file.exists
           THEN /\ task' = [task EXCEPT ![t].pc = "Failed", ![t].err = "marker_read",
                                        ![t].latest_version = r.v]
                /\ UNCHANGED hist
           ELSE /\ task' = [task EXCEPT
                       ![t].latest_version = r.v,
                       ![t].current_version = ReadMarker(latest_tb_file),
                       ![t].pc = IF ReadMarker(latest_tb_file) # r.v
                                 THEN "Matching" ELSE "UpToDate"]
                /\ Logged(t, "version_checked")
    /\ UNCHANGED <<request, latest_tb_file, temp_path, latest_path, ncycles>>

\* lines 270-286: build url_regexp from the locale list and ask for the
\* listing of the mirror
Matching(t) ==
    /\ task[t].pc = "Matching"
    /\ task' = [task EXCEPT ![t].langs = Locales, ![t].pc = "getTBBFilenames"]
    /\ Logged(t, "enum_request")
    /\ UNCHANGED <<request, latest_tb_file, temp_path, latest_path, ncycles>>

\* line 286: the deferred of getTBBFilenames fires, with the links that
\* extractLinks finds in one of the pages, or with a failure
Enumerated(t, pages) ==
    /\ task[t].pc = "getTBBFilenames"
    /\ \/ Raise(t, "enumerate") /\ UNCHANGED hist
       \/ \E page \in pages :
              /\ task' = [task EXCEPT ![t].page = page,
                                      ![t].files = extractLinks(page, task[t].langs),
                                      ![t].pc = "rmtree_temp"]
              /\ Logged(t, "enum_done")
    /\ UNCHANGED <<request, latest_tb_file, temp_path, latest_path, ncycles>>

FilenamesReply(t) == Enumerated(t, Pages(task[t].latest_version))

\* line 291: shutil.rmtree(temp_path, True)
RmtreeTemp(t) ==
    /\ task[t].pc = "rmtree_temp"
    /\ temp_path' \in RmtreeOutcomes(temp_path)
    /\ Goto(t, "mkdir")
    /\ UNCHANGED <<request, latest_tb_file, latest_path, hist, ncycles>>

\* the staging setup emptying the live directory as well
MkdirTemp_ClearsLive(t) ==
    /\ task[t].pc = "mkdir"
    /\ IF temp_path.exists
       THEN Raise(t, "mkdir") /\ UNCHANGED <<temp_path, latest_path>>
       ELSE /\ temp_path' = EmptyDir
            /\ latest_path' = NoDir
            /\ task' = [task EXCEPT ![t].todo = task[t].files, ![t].pc = "loop"]
    /\ UNCHANGED <<request, latest_tb_file, hist, ncycles>>

\* the staging setup accepting a directory that is already there
MkdirTemp_KeepsExisting(t) ==
    /\ task[t].pc = "mkdir"
    /\ temp_path' = IF temp_path.exists THEN temp_path ELSE EmptyDir
    /\ task' = [task EXCEPT ![t].todo = task[t].files, ![t].pc = "loop"]
    /\ UNCHANGED <<request, latest_tb_file, latest_path, hist, ncycles>>

\* line 292: os.mkdir(temp_path), OSError when temp_path is still there
MkdirTemp(t) ==
    /\ task[t].pc = "mkdir"
    /\ IF temp_path.exists
       THEN Raise(t, "mkdir") /\ UNCHANGED temp_path
       ELSE /\ temp_path' = EmptyDir
            /\ task' = [task EXCEPT ![t].todo = task[t].files, ![t].pc = "loop"]
    /\ UNCHANGED <<request, latest_tb_file, latest_path, hist, ncycles>>

\* lines 293-296: the next f of files (a set: any order), its file opened
\* in temp_path and downloadPage started
OpenSavefile(t) ==
    /\ task[t].pc = "loop"
    /\ \E f \in task[t].todo :
          IF ~temp_path.exists
          THEN Raise(t, "open") /\ UNCHANGED <<temp_path, hist>>
          ELSE /\ temp_path' = OpenForWrite(temp_path, f, task[t].id)
               /\ task' = [task EXCEPT ![t].f = f, ![t].pc = "downloadPage"]
               /\ Logged(t, "download_start")
    /\ UNCHANGED <<request, latest_tb_file, latest_path, ncycles>>

\* the download step removing the staging directory when a download fails
DownloadReply_DiscardsStaging(t) ==
    /\ task[t].pc = "downloadPage"
    /\ \/ /\ Raise(t, "download")
          /\ temp_path' = NoDir
          /\ UNCHANGED <<latest_path, hist>>
       \/ /\ temp_path' = Written(temp_path, task[t].f, task[t].id)
          /\ latest_path' = Written(latest_path, task[t].f, task[t].id)
          /\ task' = [task EXCEPT ![t].todo = @ \ {task[t].f}, ![t].pc = "loop"]
          /\ Logged(t, "download_done")
    /\ UNCHANGED <<request, latest_tb_file, ncycles>>

\* line 296: the deferred of downloadPage fires
DownloadReply(t) ==
    /\ task[t].pc = "downloadPage"
    /\ \/ /\ Raise(t, "download")
          /\ UNCHANGED <<temp_path, latest_path, hist>>
       \/ /\ temp_path' = Written(temp_path, task[t].f, task[t].id)
          /\ latest_path' = Written(latest_path, task[t].f, task[t].id)
          /\ task' = [task EXCEPT ![t].todo = @ \ {task[t].f}, ![t].pc = "loop"]
          /\ Logged(t, "download_done")
    /\ UNCHANGED <<request, latest_tb_file, ncycles>>

\* the removal of the live directory not waiting for the end of the loop
RmtreeLatest_Early(t) ==
    /\ task[t].pc = "loop"
    /\ latest_path' \in RmtreeOutcomes(latest_path)
    /\ Goto(t, IF task[t].todo = {} THEN "move" ELSE "loop")
    /\ Logged(t, "publish_start")
    /\ UNCHANGED <<request, latest_tb_file, temp_path, ncycles>>

\* line 298, after the loop: shutil.rmtree(latest_path, True)
RmtreeLatest(t) ==
    /\ task[t].pc = "loop"
    /\ task[t].todo = {}
    /\ latest_path' \in RmtreeOutcomes(latest_path)
    /\ Goto(t, "move")
    /\ Logged(t, "publish_start")
    /\ UNCHANGED <<request, latest_tb_file, temp_path, ncycles>>

\* shutil.move(src, dst) of a directory: a rename when dst is not there,
\* a move to dst/temp when dst is a directory, an Error when dst/temp is
\* there already or src is missing.  ok = FALSE: it raised.
ShutilMove(src, dst) ==
    IF ~src.exists THEN [ok |-> FALSE, src |-> src, dst |-> dst]
    ELSE IF ~dst.exists THEN [ok |-> TRUE, src |-> NoDir, dst |-> src]
    ELSE IF dst.hasSub THEN [ok |-> FALSE, src |-> src, dst |-> dst]
    ELSE [ok |-> TRUE, src |-> NoDir,
          dst |-> [dst EXCEPT !.hasSub = TRUE, !.sub = src.files]]

\* the move with its error ignored: the marker is written all the same
Move_SwallowsError(t) ==
    /\ task[t].pc = "move"
    /\ LET m == ShutilMove(temp_path, latest_path)
       IN  \/ /\ m.ok
              /\ temp_path' = m.src
              /\ latest_path' = m.dst
              /\ Goto(t, "open_marker")
              /\ Logged(t, "swap_done")
           \/ /\ Goto(t, "open_marker")
              /\ UNCHANGED <<temp_path, latest_path, hist>>
    /\ UNCHANGED <<request, latest_tb_file, ncycles>>

\* line 299: shutil.move(temp_path, latest_path); the rename can also be
\* refused by the system, which leaves both directories as they were
Move(t) ==
    /\ task[t].pc = "move"
    /\ LET m == ShutilMove(temp_path, latest_path)
       IN  \/ /\ m.ok
              /\ temp_path' = m.src
              /\ latest_path' = m.dst
              /\ Goto(t, "open_marker")
              /\ Logged(t, "swap_done")
           \/ /\ Raise(t, "move")
              /\ UNCHANGED <<temp_path, latest_path, hist>>
    /\ UNCHANGED <<request, latest_tb_file, ncycles>>

\* line 303: open(latest_tb_file, 'w') truncates the file, or raises
OpenMarker(t) ==
    /\ task[t].pc = "open_marker"
    /\ \/ /\ latest_tb_file' = MarkerFile(EmptyStr, FALSE)
          /\ Goto(t, "write_marker")
          /\ Logged(t, "marker_write_start")
       \/ /\ Raise(t, "marker_open")
          /\ UNCHANGED <<latest_tb_file, hist>>
    /\ UNCHANGED <<request, temp_path, latest_path, ncycles>>

\* the marker write storing the version read at the start of the cycle
WriteMarker_StoresCurrent(t) ==
    /\ task[t].pc = "write_marker"
    /\ \/ /\ latest_tb_file' = MarkerFile(task[t].current_version, FALSE)
          /\ Goto(t, "Done")
          /\ Logged(t, "marker_written")
       \/ /\ Raise(t, "marker_write")
          /\ UNCHANGED <<latest_tb_file, hist>>
    /\ UNCHANGED <<request, temp_path, latest_path, ncycles>>

\* line 304 and the end of the with block: the version reaches the file,
\* or the write raises and the file stays as open() left it
WriteMarker(t) ==
    /\ task[t].pc = "write_marker"
    /\ \/ /\ latest_tb_file' = MarkerFile(task[t].latest_version, FALSE)
          /\ Goto(t, "Done")
          /\ Logged(t, "marker_written")
       \/ /\ Raise(t, "marker_write")
          /\ UNCHANGED <<latest_tb_file, hist>>
    /\ UNCHANGED <<request, temp_path, latest_path, ncycles>>

\* the process is terminated: every invocation in flight is abandoned
\* where it stands, the disk stays as it is
Kill ==
    /\ \E t \in Slots : InFlight(task[t].pc)
    /\ task' = [t \in Slots |->
                   IF InFlight(task[t].pc)
                   THEN [task[t] EXCEPT !.pc = "Abandoned"] ELSE task[t]]
    /\ UNCHANGED <<request, latest_tb_file, temp_path, latest_path, hist, ncycles>>

Step(t) ==
    \/ Start(t)
    \/ VersionsReply(t)
    \/ CheckVersion(t)
    \/ Matching(t)
    \/ FilenamesReply(t)
    \/ RmtreeTemp(t)
    \/ MkdirTemp(t)
    \/ OpenSavefile(t)
    \/ DownloadReply(t)
    \/ RmtreeLatest(t)
    \/ Move(t)
    \/ OpenMarker(t)
    \/ WriteMarker(t)

Next ==
    \/ \E t \in Scheduled : Step(t)
    \/ Kill

Spec == Init /\ [][Next]_vars

\* the yields of lines 258, 286 and 296: where an invocation is suspended
Suspended == {"getTBBVersions", "getTBBFilenames", "downloadPage"}

\* the invocation in slot t is between two yields, running in the reactor
Running(t) == InFlight(task[t].pc) /\ task[t].pc \notin Suspended

\* getTorTask called again while an invocation is suspended at a yield:
\* the reactor runs one callback at a time, so the invocations interleave
\* at their yields only
\* no other invocation is in the middle of a callback
Turn(t) == \A u \in Slots \ {t} : ~Running(u)

OverlapStep(t) ==
    \/ Turn(t) /\ Start(t)
    \/ Turn(t) /\ VersionsReply(t)
    \/ Turn(t) /\ CheckVersion(t)
    \/ Turn(t) /\ Matching(t)
    \/ Turn(t) /\ FilenamesReply(t)
    \/ Turn(t) /\ RmtreeTemp(t)
    \/ Turn(t) /\ MkdirTemp(t)
    \/ Turn(t) /\ OpenSavefile(t)
    \/ Turn(t) /\ DownloadReply(t)
    \/ Turn(t) /\ RmtreeLatest(t)
    \/ Turn(t) /\ Move(t)
    \/ Turn(t) /\ OpenMarker(t)
    \/ Turn(t) /\ WriteMarker(t)

NextOverlap ==
    \/ \E t \in Slots : OverlapStep(t)
    \/ Kill

OverlapSpec == Init /\ [][NextOverlap]_vars

\* ------------------------------------------------------------------------
\* getLatestTBBVersion on its own: any array of candidates, then the
\* selection and the comparison with the marker (lines 261-268)

InitVersions ==
    /\ latest_tb_file \in {MarkerFile(V553, FALSE), MarkerFile(V553, TRUE), NoFile}
    /\ temp_path = NoDir
    /\ latest_path = InitialRelease
    /\ \E feed \in AllFeeds :
          task = [t \in Slots |->
                     IF t = 1
                     THEN [FreshTask EXCEPT !.pc = "CheckingVersion", !.id = 1,
                                            !.response = feed]
                     ELSE FreshTask]
    /\ hist = [t \in Slots |->
                  IF t = 1
                  THEN [FreshHist EXCEPT !.live0 = latest_path,
                                         !.marker0 = latest_tb_file,
                                         !.log = <<"versions_received">>]
                  ELSE FreshHist]
    /\ ncycles = 1
    /\ request = NoRequest

NextVersions == CheckVersion(1)

VersionSpec == InitVersions /\ [][NextVersions]_vars

\* ------------------------------------------------------------------------
\* The pattern and extractLinks on their own: any locale list and a new
\* version, then the reply of getTBBFilenames on any of the pages

InitPattern ==
    /\ latest_tb_file = MarkerFile(V553, FALSE)
    /\ temp_path = NoDir
    /\ latest_path = InitialRelease
    /\ \E ver \in {V510, V55}, langs \in LocaleLists :
          task = [t \in Slots |->
                     IF t = 1
                     THEN [FreshTask EXCEPT !.pc = "getTBBFilenames", !.id = 1,
                                            !.response = <<ver>>,
                                            !.latest_version = ver,
                                            !.current_version = V553,
                                            !.langs = langs]
                     ELSE FreshTask]
    /\ hist = [t \in Slots |->
                  IF t = 1
                  THEN [FreshHist EXCEPT
                           !.live0 = latest_path, !.marker0 = latest_tb_file,
                           !.log = <<"versions_received", "version_checked",
                                     "enum_request">>]
                  ELSE FreshHist]
    /\ ncycles = 1
    /\ request = NoRequest

ListingReply(t) == Enumerated(t, ListingPages)

NextPattern == ListingReply(1)

PatternSpec == InitPattern /\ [][NextPattern]_vars

\* ------------------------------------------------------------------------
\* getBestLangMatch on its own: any header and any supported list, then
\* the call of line 147

InitLang ==
    /\ latest_tb_file = MarkerFile(V553, FALSE)
    /\ temp_path = NoDir
    /\ latest_path = InitialRelease
    /\ task = [t \in Slots |-> FreshTask]
    /\ hist = [t \in Slots |-> FreshHist]
    /\ ncycles = 0
    /\ \E h \in Headers, sup \in SupportedLists :
          request = [accept_language |-> h, supported_lcs |-> sup,
                     lang |-> Tag("", ""), done |-> FALSE]

\* lang = getBestLangMatch(alang, locales)
Negotiate ==
    /\ ~request.done
    /\ request' = [request EXCEPT
                      !.lang = getBestLangMatch(request.accept_language,
                                                request.supported_lcs),
                      !.done = TRUE]
    /\ UNCHANGED <<latest_tb_file, temp_path, latest_path, task, hist, ncycles>>

NextLang == Negotiate

LangSpec == InitLang /\ [][NextLang]_vars

\* ------------------------------------------------------------------------
\* Properties

Events(t) == Range(hist[t].log)

\* no invocation started after the one in slot t
IsLatestCycle(t) == task[t].pc # "Idle" /\ task[t].id = ncycles

\* the directory holding exactly the files enumerated by the invocation in
\* slot t, each opened by it and written completely
NewRelease(t) ==
    [exists |-> TRUE,
     files |-> {FileOf(f, task[t].id, TRUE) : f \in task[t].files},
     hasSub |-> FALSE, sub |-> {}]

\* C1: in every state of a cycle, the steps between the removal of the live
\* directory and the move of the staging directory included, a reader of
\* torbrowser/latest finds either the complete file set the cycle started
\* from or the complete file set the cycle downloaded.
C1_LiveAlwaysComplete ==
    \A t \in Slots :
        IsLatestCycle(t) =>
            \/ latest_path = hist[t].live0
            \/ latest_path = NewRelease(t)

\* C2: a cycle that ends because the replacement of the live directory
\* raised leaves the live directory and the version marker as they were
\* when the cycle started.
C2_FailedSwapKeepsLive ==
    \A t \in Slots :
        (IsLatestCycle(t) /\ task[t].pc = "Failed" /\ task[t].err = "move") =>
            /\ latest_path = hist[t].live0
            /\ latest_tb_file = hist[t].marker0

\* the failures before the publish step
EarlyErrors == {"fetch", "select", "marker_read", "enumerate", "mkdir", "open", "download"}

\* C3: a cycle that ends on a failure of the version fetch, the version
\* selection, the marker read, the enumeration, the staging setup or a
\* download leaves the live directory and the version marker exactly as they
\* were when it started, also when other files were downloaded before.
C3_EarlyFailureLeavesState ==
    \A t \in Slots :
        (IsLatestCycle(t) /\ task[t].pc = "Failed" /\ task[t].err \in EarlyErrors) =>
            /\ latest_path = hist[t].live0
            /\ latest_tb_file = hist[t].marker0

\* a download failed after another file of the same cycle was written
C3_Witness ==
    \E t \in Slots :
        /\ task[t].pc = "Failed" /\ task[t].err = "download"
        /\ \E f \in temp_path.files : f.cyc = task[t].id /\ f.done
        /\ latest_path = hist[t].live0 /\ latest_tb_file = hist[t].marker0

\* C4: every step that changes the version marker is taken by an invocation
\* whose shutil.move of the staging directory onto the live directory has
\* returned without raising, in that same invocation.
C4_MarkerOnlyAfterSwap ==
    [][latest_tb_file' # latest_tb_file =>
          \E t \in Slots :
              /\ task[t].pc \in {"open_marker", "write_marker"}
              /\ task'[t].pc # task[t].pc
              /\ "swap_done" \in Events(t)]_vars

\* the marker was rewritten by a cycle whose move had returned
C4_Witness ==
    \E t \in Slots :
        /\ task[t].pc = "Done"
        /\ "swap_done" \in Events(t)
        /\ latest_tb_file # hist[t].marker0

\* v is the greatest, in dotted-numeric order, of the candidates without '-'
IsMaxStable(v, versions) ==
    /\ ~HasDash(v)
    /\ v \in Range(StableOf(versions))
    /\ \A w \in Range(StableOf(versions)) : ~LooseVersionLess(v, w)

\* C5: for a candidate list with at least one version without '-',
\* getLatestTBBVersion returns the dotted-numeric maximum of the candidates
\* without '-', never one with '-'.
C5_ReturnsMaximumStable ==
    \A t \in Slots :
        (task[t].pc \in {"Matching", "UpToDate"} /\ StableOf(task[t].response) # <<>>) =>
            IsMaxStable(task[t].latest_version, task[t].response)

\* the disk is as the invocation in slot t found it
DiskUntouched(t) ==
    /\ latest_path = hist[t].live0
    /\ temp_path = hist[t].temp0
    /\ latest_tb_file = hist[t].marker0

\* C6: when the candidate list is empty or holds only versions with '-',
\* the selection raises and the cycle ends Failed with no enumeration
\* request, no download, the staging and live directories untouched and the
\* version marker not written.
C6_NoStableFailsCleanly ==
    \A t \in Slots :
        (/\ IsLatestCycle(t)
         /\ "versions_received" \in Events(t)
         /\ StableOf(task[t].response) = <<>>
         /\ task[t].pc # "CheckingVersion") =>
            /\ task[t].pc \in {"Failed", "Abandoned"}
            /\ task[t].pc = "Failed" => task[t].err = "select"
            /\ hist[t].log = <<"versions_received">>
            /\ DiskUntouched(t)

\* a cycle failed on a list of pre-releases only
C6_Witness ==
    \E t \in Slots :
        /\ task[t].pc = "Failed" /\ task[t].err = "select"
        /\ task[t].response # <<>>
        /\ \A i \in 1..Len(task[t].response) : HasDash(task[t].response[i])

\* C7: the cycle that follows a cycle ended Done and receives the same
\* version list goes to UpToDate: it asks for no enumeration, starts no
\* download and leaves the staging directory, the live directory and the
\* version marker as it found them.
C7_SecondCycleUpToDate ==
    \A t \in Slots :
        (/\ IsLatestCycle(t)
         /\ hist[t].prevEnd = "Done"
         /\ "versions_received" \in Events(t)
         /\ task[t].response = hist[t].prevResponse) =>
            /\ task[t].pc \in {"CheckingVersion", "UpToDate", "Abandoned"}
            /\ Events(t) \subseteq {"versions_received", "version_checked"}
            /\ DiskUntouched(t)

\* a cycle reached UpToDate after a Done cycle on the same list
C7_Witness ==
    \E t \in Slots :
        /\ task[t].pc = "UpToDate"
        /\ hist[t].prevEnd = "Done"
        /\ task[t].response = hist[t].prevResponse
        /\ DiskUntouched(t)

\* C8: a cycle that ends Failed, whatever raised, leaves the version marker
\* with the value it had when the cycle started, also when the error came
\* while the marker was being written.
C8_FailedKeepsMarker ==
    \A t \in Slots :
        (IsLatestCycle(t) /\ task[t].pc = "Failed") =>
            latest_tb_file = hist[t].marker0

\* what shutil.move put in place: latest, or latest/temp when latest stayed
PublishedFiles == IF latest_path.hasSub THEN latest_path.sub ELSE latest_path.files

\* C9: a cycle that finds a staging directory left by an abandoned cycle
\* starts its first download in a staging directory it has removed and
\* created empty, has not changed the live directory by then, and moves in
\* place only files it downloaded itself.
C9_StaleStagingDiscarded ==
    \A t \in Slots :
        (IsLatestCycle(t) /\ hist[t].temp0.exists) =>
            /\ (task[t].pc = "loop" /\ "download_start" \notin Events(t)) =>
                   temp_path = EmptyDir
            /\ task[t].pc \in {"loop", "downloadPage"} =>
                   \A f \in temp_path.files : f.cyc = task[t].id
            /\ "publish_start" \notin Events(t) => latest_path = hist[t].live0
            /\ "swap_done" \in Events(t) =>
                   PublishedFiles = {FileOf(f, task[t].id, TRUE) : f \in task[t].files}

\* a cycle was killed with the staging directory populated, and the next
\* cycle published its own downloads
C9_Witness ==
    \E t \in Slots :
        /\ task[t].pc = "Done"
        /\ hist[t].prevEnd = "Abandoned"
        /\ hist[t].temp0.exists
        /\ hist[t].temp0.files # {}
        /\ \A f \in hist[t].temp0.files : f.done /\ f.cyc # task[t].id
        /\ task[t].files # {}
        /\ PublishedFiles = {FileOf(f, task[t].id, TRUE) : f \in task[t].files}

\* the place of an event in a cycle
Rank(e) ==
    CASE e = "versions_received" -> 0
      [] e = "version_checked" -> 1
      [] e = "enum_request" -> 2
      [] e = "enum_done" -> 3
      [] e \in {"download_start", "download_done"} -> 4
      [] e = "publish_start" -> 5
      [] e = "swap_done" -> 6
      [] e = "marker_write_start" -> 7
      [] e = "marker_written" -> 8

CountOf(log, e) == Len(SelectSeq(log, LAMBDA x : x = e))

\* C10: in every cycle the version check comes before the enumeration
\* request, the end of the enumeration before every download, the end of
\* every download before the publish step touches the live directory, and
\* the end of the swap before the start of the marker write.
C10_StepsOrdered ==
    \A t \in Slots :
        LET log == hist[t].log
        IN  /\ \A i, j \in 1..Len(log) : i < j => Rank(log[i]) <= Rank(log[j])
            /\ "publish_start" \in Events(t) =>
                   /\ CountOf(log, "download_start") = Cardinality(task[t].files)
                   /\ CountOf(log, "download_done") = Cardinality(task[t].files)
            /\ IsLatestCycle(t) =>
                   /\ latest_path # hist[t].live0 => "publish_start" \in Events(t)
                   /\ latest_tb_file # hist[t].marker0 => "swap_done" \in Events(t)

\* a cycle went through all the steps with two files to download
C10_Witness ==
    \E t \in Slots :
        /\ task[t].pc = "Done"
        /\ Cardinality(task[t].files) >= 2
        /\ hist[t].log[Len(hist[t].log)] = "marker_written"

\* C11: with an empty locale list the pattern matches no link of the
\* listing: whatever the page holds, the enumerated set is empty and the
\* cycle has nothing to download.
C11_EmptyLocalesMatchNothing ==
    \A t \in Slots :
        ("enum_done" \in Events(t) /\ task[t].langs = <<>>) =>
            task[t].files = {}

\* the four filenames of the templates for a version and a locale
Templates(ver, lc) ==
    {Link("win", ver, lc, "exe"), Link("win", ver, lc, "exe.asc"),
     Link("osx", ver, lc, "dmg"), Link("osx", ver, lc, "dmg.asc")}

\* C12: for every version and locale list, the filenames the pattern
\* accepts on a page are exactly the links of the page that equal one of
\* the four templates for that version and a locale of the list.
C12_PatternIsTemplates ==
    \A t \in Slots :
        "enum_done" \in Events(t) =>
            task[t].files =
                {l \in task[t].page :
                    \E lc \in Range(task[t].langs) :
                        l \in Templates(task[t].latest_version, lc)}

\* C15: when the listing links a binary and its detached signature for a
\* supported locale, the enumerated set holds both names, .exe with
\* .exe.asc and .dmg with .dmg.asc.
C15_SignaturesEnumerated ==
    \A t \in Slots :
        "enum_done" \in Events(t) =>
            \A lc \in Range(task[t].langs) :
                \A l \in Templates(task[t].latest_version, lc) \cap task[t].page :
                    l \in task[t].files

\* C13: after a cycle whose marker write failed once its move had
\* returned, the next cycle on the same version list finds the marker
\* different from the latest version, does not stop at UpToDate, and when it
\* gets through enumeration, download and publish it ends with the live
\* directory holding the complete set of that version and the marker equal
\* to that version.
C13_RerunAfterMarkerFailure ==
    \A t \in Slots :
        (/\ IsLatestCycle(t)
         /\ hist[t].prevMarkerFail
         /\ "versions_received" \in Events(t)
         /\ task[t].response = hist[t].prevResponse) =>
            /\ task[t].pc # "UpToDate"
            /\ "version_checked" \in Events(t) =>
                   task[t].current_version # task[t].latest_version
            /\ (task[t].pc = "Done" /\ ~latest_path.hasSub) =>
                   /\ latest_path = NewRelease(t)
                   /\ latest_tb_file = MarkerFile(task[t].latest_version, FALSE)

\* the write of the marker failed, and the next cycle published the same
\* version again and marked it
C13_Witness ==
    \E t \in Slots :
        /\ task[t].pc = "Done"
        /\ hist[t].prevMarkerFail
        /\ task[t].response = hist[t].prevResponse
        /\ task[t].files # {}
        /\ latest_path = NewRelease(t)
        /\ latest_tb_file = MarkerFile(task[t].latest_version, FALSE)

\* C14: getBestLangMatch returns, for the first requested tag in header
\* order that has any match, the first supported locale equal to the tag
\* without regard to case; failing that the first supported locale equal
\* to the tag's primary subtag; failing that the first supported locale
\* whose primary subtag is the tag's primary subtag; it returns en-US when
\* no requested tag has a match.  The result is a supported locale or
\* en-US, and "es-PT,en;q=0.8" against [es-ES, en-US] gives es-ES.
C14_BestLangMatchRule ==
    request.done =>
        LET sup == request.supported_lcs
            hdr == request.accept_language
            idx == 1..Len(sup)
            Least(S) == CHOOSE i \in S : \A j \in S : i <= j
            Exact(g) == {i \in idx : Lower(sup[i]) = Lower(g)}
            Primary(g) == {i \in idx : /\ sup[i].r = ""
                                       /\ LowerSub(sup[i].p) = LowerSub(g.p)}
            Wide(g) == {i \in idx : LowerSub(sup[i].p) = LowerSub(g.p)}
            Yields(k) == Exact(hdr[k].tag) \cup Primary(hdr[k].tag)
                             \cup Wide(hdr[k].tag) # {}
            Pick(g) == IF Exact(g) # {} THEN sup[Least(Exact(g))]
                       ELSE IF Primary(g) # {} THEN sup[Least(Primary(g))]
                       ELSE sup[Least(Wide(g))]
            hits == {k \in 1..Len(hdr) : Yields(k)}
        IN  /\ request.lang = IF hits = {} THEN Tag("en", "US")
                              ELSE Pick(hdr[Least(hits)].tag)
            /\ request.lang \in Range(sup) \cup {Tag("en", "US")}
            /\ (/\ hdr = <<[tag |-> Tag("es", "PT"), q |-> FALSE],
                           [tag |-> Tag("en", ""), q |-> TRUE]>>
                /\ sup = <<Tag("es", "ES"), Tag("en", "US")>>) =>
                   request.lang = Tag("es", "ES")

\* "es-PT,en;q=0.8" against [es-ES, en-US] has been answered with es-ES
C14_Witness ==
    /\ request.done
    /\ request.accept_language = <<[tag |-> Tag("es", "PT"), q |-> FALSE],
                                   [tag |-> Tag("en", ""), q |-> TRUE]>>
    /\ request.supported_lcs = <<Tag("es", "ES"), Tag("en", "US")>>
    /\ request.lang = Tag("es", "ES")

\* C16: when the selected version differs from the marker and the
\* enumeration yields no filename, the cycle changes nothing: the live
\* directory and the version marker stay as the cycle found them.
C16_ZeroFilesNoOp ==
    \A t \in Slots :
        (/\ IsLatestCycle(t)
         /\ "enum_done" \in Events(t)
         /\ task[t].files = {}) =>
            /\ latest_path = hist[t].live0
            /\ latest_tb_file = hist[t].marker0

\* C17: while an invocation is suspended in downloadPage, between the
\* creation of its staging directory and its swap, the staging directory is
\* there and holds only files that invocation opened, whatever another
\* invocation started meanwhile does; and the files moved in place were
\* all downloaded by one invocation.
C17_StagingOwnedByOneCycle ==
    /\ \A t \in Slots :
           task[t].pc = "downloadPage" =>
               /\ temp_path.exists
               /\ FileOf(task[t].f, task[t].id, FALSE) \in temp_path.files
               /\ \A x \in temp_path.files : x.cyc = task[t].id
    /\ \A x, y \in PublishedFiles : x.cyc = y.cyc

\* a failure after os.mkdir(temp_path) and before the end of shutil.move
LateErrors == {"download", "move"}

\* C18 as stated: once a cycle that failed between the creation of its
\* staging directory and the swap is Failed, the staging directory does
\* not exist.
C18_FailedStagingGone ==
    \A t \in Slots :
        (/\ IsLatestCycle(t)
         /\ task[t].pc = "Failed"
         /\ task[t].err \in LateErrors) =>
            ~temp_path.exists

\* C18, amended: once a cycle that failed between the creation of its
\* staging directory and the swap is Failed, the staging directory is
\* still there, holding the files that cycle downloaded completely and,
\* after a failed download, the file that download left incomplete.
C18_FailedStagingRemains ==
    \A t \in Slots :
        (/\ IsLatestCycle(t)
         /\ task[t].pc = "Failed"
         /\ task[t].err \in LateErrors) =>
            /\ temp_path.exists
            /\ temp_path.files =
                   {FileOf(n, task[t].id, TRUE) : n \in task[t].files \ task[t].todo}
                   \cup (IF task[t].err = "download"
                         THEN {FileOf(task[t].f, task[t].id, FALSE)} ELSE {})

\* a cycle failed on its second download: one complete file and one
\* incomplete file are left in the staging directory
C18_Witness ==
    \E t \in Slots :
        /\ IsLatestCycle(t)
        /\ task[t].pc = "Failed"
        /\ task[t].err = "download"
        /\ temp_path.exists
        /\ \E x, y \in temp_path.files : x.done /\ ~y.done

\* C19: whenever a cycle is Done, the live directory holds exactly the
\* files that cycle enumerated, each complete, nothing of the previous
\* release and no sub-directory, and the marker holds the version the
\* cycle selected; also when shutil.rmtree(latest_path, True) left the old
\* directory in place.
C19_DoneMeansExactRelease ==
    \A t \in Slots :
        (IsLatestCycle(t) /\ task[t].pc = "Done") =>
            /\ latest_path = NewRelease(t)
            /\ latest_tb_file = MarkerFile(task[t].latest_version, FALSE)

\* C20: a cycle that starts with no readable version marker ends Failed at
\* the marker read at the latest: no enumeration, no download, the
\* directories as they were; the marker is still missing afterwards, so
\* the same holds for every later cycle and none reaches Done.
C20_MissingMarkerNeverPublishes ==
    \A t \in Slots :
        (task[t].pc # "Idle" /\ ~hist[t].marker0.exists) =>
            /\ task[t].pc \in {"getTBBVersions", "CheckingVersion", "Failed", "Abandoned"}
            /\ task[t].pc = "Failed" => task[t].err \in {"fetch", "select", "marker_read"}
            /\ Events(t) \subseteq {"versions_received"}
            /\ IsLatestCycle(t) => latest_path = hist[t].live0 /\ temp_path = hist[t].temp0
            /\ ~latest_tb_file.exists

\* a second cycle failed at the marker read after a first one had failed
\* there, the marker missing from the start
C20_Witness ==
    \E t \in Slots :
        /\ task[t].id = 2
        /\ task[t].pc = "Failed"
        /\ task[t].err = "marker_read"
        /\ hist[t].prevEnd = "Failed"
        /\ ~hist[t].marker0.exists
        /\ ~latest_tb_file.exists
        /\ latest_path = InitialRelease

====
